---- MODULE Spec2Model ----
(***************************************************************************)
(* heartbeat() of groups/arm/ggd/heartbeat.py as a state machine.          *)
(*                                                                         *)
(* One thread of control walks through discovery, connect, the publishing  *)
(* loop and the teardown.  The environment supplies the results of the     *)
(* external calls, the wall clock read by datetime.datetime.now(), the     *)
(* random draws, and the operator's interrupt (KeyboardInterrupt), which   *)
(* Python raises in the main thread at whatever statement is executing.    *)
(***************************************************************************)
EXTENDS Integers, Sequences, FiniteSets, TLC

\* ------------------------------------------------------------------ bounds
MaxCores    == 2   \* longest core_list a discovery returns
MaxClock    == 2   \* wall clock readings are 0..MaxClock ticks
MaxPub      == 2   \* heartbeat records built in one run
RandBits    == 2   \* bits of the float mantissa and of random.random()
TicksPerSec == 2   \* clock ticks per second (datetime's sub-second part)

\* -------------------------------------------------------- program constants
SleepFactor      == 10   \* time.sleep(random.random() * 10)
GraceDelay       == 2    \* time.sleep(2)
DefaultFrequency == 3    \* --frequency default

Cores       == {"CoreA", "CoreB"}
Frequencies == {DefaultFrequency, 10}
ClockValues == 0..MaxClock

RECURSIVE Pow2(_)
Pow2(n) == IF n = 0 THEN 1 ELSE 2 * Pow2(n - 1)

RECURSIVE BitLen(_)
BitLen(n) == IF n = 0 THEN 0 ELSE 1 + BitLen(n \div 2)

\* The sequences of distinct elements of S, of length at most n.
RECURSIVE SeqsUpTo(_, _)
SeqsUpTo(S, n) ==
    IF n = 0 THEN {<<>>}
    ELSE LET shorter == SeqsUpTo(S, n - 1)
         IN  shorter \cup
             UNION {{Append(s, x) : x \in S \ {s[i] : i \in 1..Len(s)}} :
                       s \in shorter}

VARIABLES
    pc,             \* the statement heartbeat() is at
    frequency,      \* args.frequency, parsed and never passed on
    discovered,     \* first component of ggc_discovery's result
    core_list,      \* third component of ggc_discovery's result
    core_info,      \* core_list[0]
    connectCalls,   \* the core_info of every mqtt_connect call
    connected,      \* what mqtt_connect returned
    start,          \* start = datetime.datetime.now()
    now,            \* now = datetime.datetime.now()
    msg,            \* the record built in this iteration
    built,          \* records built so far
    publishCalls,   \* the record of every mqttc.publish call started
    completed,      \* mqttc.publish calls that returned
    delay,          \* argument of the last time.sleep in the loop
    cancelObserved, \* the except clause has caught a KeyboardInterrupt
    pubsAtCancel,   \* publish calls started when it was caught
    interruptedAt,  \* statement at which the last interrupt was raised
    teardown,       \* the teardown steps taken, in order
    outcome         \* how heartbeat() ended

vars == <<pc, frequency, discovered, core_list, core_info, connectCalls,
          connected, start, now, msg, built, publishCalls, completed,
          delay, cancelObserved, pubsAtCancel, interruptedAt, teardown,
          outcome>>

\* ------------------------------------------------------------ pure helpers

\* datetime.isoformat(): the sub-second part is left out when it is zero.
IsoFormat(t) ==
    IF t % TicksPerSec = 0
    THEN <<t \div TicksPerSec>>
    ELSE <<t \div TicksPerSec, t % TicksPerSec>>

\* Float rounding of a non-negative value to RandBits significant bits,
\* ties to even.
FloatRound(n) ==
    LET e == BitLen(n) - RandBits
    IN  IF e <= 0 THEN n
        ELSE LET u == Pow2(e)
                 q == n \div u
                 r == n % u
             IN  IF 2 * r > u \/ (2 * r = u /\ q % 2 = 1)
                 THEN (q + 1) * u
                 ELSE q * u

\* random.random(): k / 2^RandBits for k in 0 .. 2^RandBits - 1.
RandomDraws == 0..(Pow2(RandBits) - 1)

\* time.sleep(frequency): the cadence a wired --frequency would give.
SleepDelayFromFrequency(r) == frequency * Pow2(RandBits)

\* random.random() * 10, in units of 2^-RandBits time-units.
SleepDelay(r) == FloatRound(r * SleepFactor)

\* core_list[-1]
LastCandidate(cl) == cl[Len(cl)]

\* core_info = core_list[0]
FirstCandidate(cl) == cl[1]

\* The heartbeat record of one iteration.
HeartbeatMsg(n, s) ==
    [version  |-> "2017-07-05",
     ggd_id   |-> "heartbeat_name",
     hostname |-> "hostname",
     data     |-> << [sensor_id |-> "heartbeat",
                      ts        |-> IsoFormat(n),
                      duration  |-> n - s] >>]

NoMsg == HeartbeatMsg(0, 0)

\* What ggc_discovery can return: failure, or success with a non-empty
\* ordered list of candidate cores.
DiscoveryResults ==
    {[discovered |-> "False", core_list |-> <<>>]}
    \cup {[discovered |-> "True", core_list |-> cl] :
             cl \in SeqsUpTo(Cores, MaxCores) \ {<<>>}}

\* A try body that also covers the connect.
TryBodyFromConnect ==
    {"connected_check", "start", "now", "build", "publish", "publishing",
     "sleep"}

\* The statements of the try body.
TryBody == {"start", "now", "build", "publish", "publishing", "sleep"}

\* The calls of the teardown, as logged in `teardown`.
DisconnectOp == [op |-> "disconnect", arg |-> 0]
GraceOp      == [op |-> "sleep", arg |-> GraceDelay]

disconnectCalls == Len(SelectSeq(teardown, LAMBDA x : x.op = "disconnect"))

\* -------------------------------------------------------------------- Init
Init ==
    /\ pc = "discover"
    /\ frequency \in Frequencies
    /\ discovered = "unset"
    /\ core_list = <<>>
    /\ core_info = "unset"
    /\ connectCalls = <<>>
    /\ connected = "unset"
    /\ start = 0
    /\ now = 0
    /\ msg = NoMsg
    /\ built = 0
    /\ publishCalls = <<>>
    /\ completed = 0
    /\ delay = 0
    /\ cancelObserved = FALSE
    /\ pubsAtCancel = 0
    /\ interruptedAt = "none"
    /\ teardown = <<>>
    /\ outcome = "running"

\* ----------------------------------------------------------------- actions

\* ggc_discovery(...) returns.
Discover ==
    /\ pc = "discover"
    /\ \E res \in DiscoveryResults :
          /\ discovered' = res.discovered
          /\ core_list' = res.core_list
    /\ pc' = "check"
    /\ UNCHANGED <<frequency, core_info, connectCalls, connected, start, now,
                   msg, built, publishCalls, completed, delay,
                   cancelObserved, pubsAtCancel, interruptedAt, teardown,
                   outcome>>

\* A discovery check that falls through to the connect.
CheckDiscoveredNoReturn ==
    /\ pc = "check"
    /\ pc' = "connect"
    /\ UNCHANGED <<frequency, discovered, core_list, core_info, connectCalls,
                   connected, start, now, msg, built, publishCalls,
                   completed, delay, cancelObserved, pubsAtCancel,
                   interruptedAt, teardown, outcome>>

\* if discovered is False: ...
CheckDiscovered ==
    /\ pc = "check"
    /\ pc' = IF discovered = "False" THEN "log_discovery_failed" ELSE "connect"
    /\ UNCHANGED <<frequency, discovered, core_list, core_info, connectCalls,
                   connected, start, now, msg, built, publishCalls,
                   completed, delay, cancelObserved, pubsAtCancel,
                   interruptedAt, teardown, outcome>>

\* log.error("Discovery failed ..."); return
LogDiscoveryFailed ==
    /\ pc = "log_discovery_failed"
    /\ pc' = "exit"
    /\ outcome' = "returned"
    /\ UNCHANGED <<frequency, discovered, core_list, core_info, connectCalls,
                   connected, start, now, msg, built, publishCalls,
                   completed, delay, cancelObserved, pubsAtCancel,
                   interruptedAt, teardown>>

\* core_info = core_list[0]; mqtt_connect(mqtt_client=mqttc, core_info=...)
MqttConnectCall ==
    /\ pc = "connect"
    /\ core_info' = FirstCandidate(core_list)
    /\ connectCalls' = Append(connectCalls, core_info')
    /\ pc' = "connecting"
    /\ UNCHANGED <<frequency, discovered, core_list, connected, start,
                   now, msg, built, publishCalls, completed, delay,
                   cancelObserved, pubsAtCancel, interruptedAt, teardown,
                   outcome>>

\* mqtt_connect returns True or False.
MqttConnectReturn ==
    /\ pc = "connecting"
    /\ connected' \in {"True", "False"}
    /\ pc' = "connected_check"
    /\ UNCHANGED <<frequency, discovered, core_list, core_info, connectCalls,
                   start, now, msg, built, publishCalls, completed,
                   delay, cancelObserved, pubsAtCancel, interruptedAt,
                   teardown, outcome>>

\* A connect check whose else branch enters the loop.
IfConnectedAlways ==
    /\ pc = "connected_check"
    /\ pc' = "start"
    /\ UNCHANGED <<frequency, discovered, core_list, core_info, connectCalls,
                   connected, start, now, msg, built, publishCalls,
                   completed, delay, cancelObserved, pubsAtCancel,
                   interruptedAt, teardown, outcome>>

\* if mqtt_connect(...): try: ... else: ...
IfConnected ==
    /\ pc = "connected_check"
    /\ pc' = IF connected = "True" THEN "start" ELSE "log_connect_failed"
    /\ UNCHANGED <<frequency, discovered, core_list, core_info, connectCalls,
                   connected, start, now, msg, built, publishCalls,
                   completed, delay, cancelObserved, pubsAtCancel,
                   interruptedAt, teardown, outcome>>

\* print("[hb] could not connect successfully ..."); falls off the end.
LogConnectFailed ==
    /\ pc = "log_connect_failed"
    /\ pc' = "exit"
    /\ outcome' = "returned"
    /\ UNCHANGED <<frequency, discovered, core_list, core_info, connectCalls,
                   connected, start, now, msg, built, publishCalls,
                   completed, delay, cancelObserved, pubsAtCancel,
                   interruptedAt, teardown>>

\* start = datetime.datetime.now(); hostname = socket.gethostname()
\* The reading is whatever the wall clock shows at that moment.
RecordStart ==
    /\ pc = "start"
    /\ start' \in ClockValues
    /\ pc' = "now"
    /\ UNCHANGED <<frequency, discovered, core_list, core_info, connectCalls,
                   connected, now, msg, built, publishCalls, completed,
                   delay, cancelObserved, pubsAtCancel, interruptedAt,
                   teardown, outcome>>

\* now = datetime.datetime.now(): the local wall clock, which runs forward
\* as time passes and shows any other reading after it is set (NTP step,
\* daylight-saving change).
ReadNow ==
    /\ pc = "now"
    /\ built < MaxPub
    /\ now' \in ClockValues
    /\ pc' = "build"
    /\ UNCHANGED <<frequency, discovered, core_list, core_info, connectCalls,
                   connected, start, msg, built, publishCalls,
                   completed, delay, cancelObserved, pubsAtCancel,
                   interruptedAt, teardown, outcome>>

\* msg = {...}; print("[hb] publishing heartbeat msg: ...")
BuildMsg ==
    /\ pc = "build"
    /\ msg' = HeartbeatMsg(now, start)
    /\ built' = built + 1
    /\ pc' = "publish"
    /\ UNCHANGED <<frequency, discovered, core_list, core_info, connectCalls,
                   connected, start, now, publishCalls, completed,
                   delay, cancelObserved, pubsAtCancel, interruptedAt,
                   teardown, outcome>>

\* mqttc.publish(topic, json.dumps(msg), 0) is entered.
PublishCall ==
    /\ pc = "publish"
    /\ publishCalls' = Append(publishCalls, msg)
    /\ pc' = "publishing"
    /\ UNCHANGED <<frequency, discovered, core_list, core_info, connectCalls,
                   connected, start, now, msg, built, completed, delay,
                   cancelObserved, pubsAtCancel, interruptedAt, teardown,
                   outcome>>

\* mqttc.publish returns (sent, or queued/dropped); the result is discarded.
PublishReturn ==
    /\ pc = "publishing"
    /\ completed' = completed + 1
    /\ pc' = "sleep"
    /\ UNCHANGED <<frequency, discovered, core_list, core_info, connectCalls,
                   connected, start, now, msg, built, publishCalls,
                   delay, cancelObserved, pubsAtCancel, interruptedAt,
                   teardown, outcome>>

\* mqttc.publish raises; only KeyboardInterrupt is caught, so it escapes.
PublishRaise ==
    /\ pc = "publishing"
    /\ pc' = "exit"
    /\ outcome' = "Exception"
    /\ UNCHANGED <<frequency, discovered, core_list, core_info, connectCalls,
                   connected, start, now, msg, built, publishCalls,
                   completed, delay, cancelObserved, pubsAtCancel,
                   interruptedAt, teardown>>

\* time.sleep(random.random() * 10)
Sleep ==
    /\ pc = "sleep"
    /\ \E r \in RandomDraws : delay' = SleepDelay(r)
    /\ pc' = "now"
    /\ UNCHANGED <<frequency, discovered, core_list, core_info, connectCalls,
                   connected, start, now, msg, built, publishCalls,
                   completed, cancelObserved, pubsAtCancel, interruptedAt,
                   teardown, outcome>>

\* KeyboardInterrupt raised inside the try body: except KeyboardInterrupt.
InterruptCaught ==
    /\ pc \in TryBody
    /\ cancelObserved' = TRUE
    /\ pubsAtCancel' = Len(publishCalls)
    /\ interruptedAt' = pc
    /\ pc' = "log_interrupt"
    /\ UNCHANGED <<frequency, discovered, core_list, core_info, connectCalls,
                   connected, start, now, msg, built, publishCalls,
                   completed, delay, teardown, outcome>>

\* KeyboardInterrupt raised anywhere else: nothing catches it.
InterruptUncaught ==
    /\ pc \notin TryBody \cup {"exit"}
    /\ interruptedAt' = pc
    /\ pc' = "exit"
    /\ outcome' = "KeyboardInterrupt"
    /\ UNCHANGED <<frequency, discovered, core_list, core_info, connectCalls,
                   connected, start, now, msg, built, publishCalls,
                   completed, delay, cancelObserved, pubsAtCancel, teardown>>

\* An except clause that goes straight to the grace delay.
LogInterruptNoDisconnect ==
    /\ pc = "log_interrupt"
    /\ pc' = "grace"
    /\ UNCHANGED <<frequency, discovered, core_list, core_info, connectCalls,
                   connected, start, now, msg, built, publishCalls,
                   completed, delay, cancelObserved, pubsAtCancel,
                   interruptedAt, teardown, outcome>>

\* log.info("[hb] KeyboardInterrupt ... exiting heartbeat")
LogInterrupt ==
    /\ pc = "log_interrupt"
    /\ pc' = "disconnect"
    /\ UNCHANGED <<frequency, discovered, core_list, core_info, connectCalls,
                   connected, start, now, msg, built, publishCalls,
                   completed, delay, cancelObserved, pubsAtCancel,
                   interruptedAt, teardown, outcome>>

\* mqttc.disconnect() is entered.
DisconnectCall ==
    /\ pc = "disconnect"
    /\ teardown' = Append(teardown, DisconnectOp)
    /\ pc' = "disconnecting"
    /\ UNCHANGED <<frequency, discovered, core_list, core_info, connectCalls,
                   connected, start, now, msg, built, publishCalls,
                   completed, delay, cancelObserved, pubsAtCancel,
                   interruptedAt, outcome>>

\* A disconnect after which the function returns at once.
DisconnectReturnNoGrace ==
    /\ pc = "disconnecting"
    /\ pc' = "exit"
    /\ outcome' = "returned"
    /\ UNCHANGED <<frequency, discovered, core_list, core_info, connectCalls,
                   connected, start, now, msg, built, publishCalls,
                   completed, delay, cancelObserved, pubsAtCancel,
                   interruptedAt, teardown>>

\* mqttc.disconnect() returns.
DisconnectReturn ==
    /\ pc = "disconnecting"
    /\ pc' = "grace"
    /\ UNCHANGED <<frequency, discovered, core_list, core_info, connectCalls,
                   connected, start, now, msg, built, publishCalls,
                   completed, delay, cancelObserved, pubsAtCancel,
                   interruptedAt, teardown, outcome>>

\* mqttc.disconnect() raises; nothing catches it.
DisconnectRaise ==
    /\ pc = "disconnecting"
    /\ pc' = "exit"
    /\ outcome' = "Exception"
    /\ UNCHANGED <<frequency, discovered, core_list, core_info, connectCalls,
                   connected, start, now, msg, built, publishCalls,
                   completed, delay, cancelObserved, pubsAtCancel,
                   interruptedAt, teardown>>

\* time.sleep(2); heartbeat() falls off its end.
GraceSleep ==
    /\ pc = "grace"
    /\ teardown' = Append(teardown, GraceOp)
    /\ pc' = "exit"
    /\ outcome' = "returned"
    /\ UNCHANGED <<frequency, discovered, core_list, core_info, connectCalls,
                   connected, start, now, msg, built, publishCalls,
                   completed, delay, cancelObserved, pubsAtCancel,
                   interruptedAt>>

\* The steps of the one thread of control.
Program ==
    \/ Discover
    \/ CheckDiscovered
    \/ LogDiscoveryFailed
    \/ MqttConnectCall
    \/ MqttConnectReturn
    \/ IfConnected
    \/ LogConnectFailed
    \/ RecordStart
    \/ ReadNow
    \/ BuildMsg
    \/ PublishCall
    \/ PublishReturn
    \/ PublishRaise
    \/ Sleep
    \/ LogInterrupt
    \/ DisconnectCall
    \/ DisconnectReturn
    \/ DisconnectRaise
    \/ GraceSleep

Next ==
    \/ Discover
    \/ CheckDiscovered
    \/ LogDiscoveryFailed
    \/ MqttConnectCall
    \/ MqttConnectReturn
    \/ IfConnected
    \/ LogConnectFailed
    \/ RecordStart
    \/ ReadNow
    \/ BuildMsg
    \/ PublishCall
    \/ PublishReturn
    \/ PublishRaise
    \/ Sleep
    \/ InterruptCaught
    \/ InterruptUncaught
    \/ LogInterrupt
    \/ DisconnectCall
    \/ DisconnectReturn
    \/ DisconnectRaise
    \/ GraceSleep

Spec == Init /\ [][Next]_vars

\* The thread keeps running: a statement that can execute does execute.
FairSpec == Spec /\ WF_vars(Program)

\* ------------------------------------------------------------------ claims

Exited     == pc = "exit"
Returned   == pc = "exit" /\ outcome = "returned"
Terminated == Returned /\ cancelObserved

\* The statements between `try:` and the end of the loop body, as the
\* claims name them.
LoopLocations == {"start", "now", "build", "publish", "publishing", "sleep"}

\* The statements after the except clause has caught the interrupt.
TeardownLocations == {"log_interrupt", "disconnect", "disconnecting", "grace"}

\* C1: once discovery has returned discovered = False, mqtt_connect is not
\* invoked in any later state of the run (discovered never changes again, so
\* the invariant covers every later point), and control never reaches the
\* connect.
C1_NoConnectWithoutDiscovery ==
    discovered = "False" =>
        /\ connectCalls = <<>>
        /\ pc \in {"check", "log_discovery_failed", "exit"}

C1_Witness == discovered = "False" /\ Returned

\* C2 as stated: after a cancellation observed in Publishing no further
\* publish call starts, and when the process has exited exactly one
\* disconnect call has been made.
C2_Original ==
    /\ cancelObserved => Len(publishCalls) = pubsAtCancel
    /\ (Exited /\ cancelObserved) => disconnectCalls = 1

\* C2 amended: after a cancellation observed in Publishing no further
\* publish call starts and at most one disconnect call is ever made; when
\* the process has exited, exactly one was made, unless a further interrupt
\* was raised after the except clause caught the first and before
\* mqttc.disconnect() was entered, in which case none was made.
C2_CleanShutdown ==
    /\ disconnectCalls <= 1
    /\ cancelObserved => Len(publishCalls) = pubsAtCancel
    /\ (Exited /\ cancelObserved) =>
          disconnectCalls =
              (IF interruptedAt \in {"log_interrupt", "disconnect"}
               THEN 0 ELSE 1)

C2_Witness ==
    /\ Terminated
    /\ disconnectCalls = 1
    /\ pubsAtCancel >= 1
    /\ Len(publishCalls) = pubsAtCancel

\* What C3 asserts of a run whose discovery or connect has failed, up to
\* the way the run ends.
C3_NoPublishing ==
    /\ publishCalls = <<>>
    /\ built = 0
    /\ teardown = <<>>
    /\ ~cancelObserved
    /\ pc \notin LoopLocations \cup TeardownLocations

\* C3 as stated: if discovery fails or the connect fails, the run never
\* enters Publishing, makes no publish and no disconnect call, and
\* heartbeat() returns normally.
C3_Original ==
    (discovered = "False" \/ connected = "False") =>
        /\ C3_NoPublishing
        /\ Exited => outcome = "returned"

\* C3 amended: if discovery fails or the connect fails, the run never
\* enters Publishing and makes no publish and no disconnect call; it ends
\* by heartbeat() returning normally, unless an interrupt is raised between
\* the failed call's return and the function's return (while the failure
\* is being tested or logged), in which case the KeyboardInterrupt escapes;
\* no other exception does.
C3_FailureIsTerminal ==
    (discovered = "False" \/ connected = "False") =>
        /\ C3_NoPublishing
        /\ Exited =>
              \/ outcome = "returned"
              \/ /\ outcome = "KeyboardInterrupt"
                 /\ interruptedAt \in {"check", "log_discovery_failed",
                                       "connected_check", "log_connect_failed"}

C3_Witness == connected = "False" /\ Returned /\ connectCalls # <<>>

\* C4: after a successful discovery, whatever the length of core_list, at
\* most one connect is attempted and its target is core_list[0] (index 1
\* here); no other candidate is passed, also after that connect has failed.
C4_FirstCandidateSelection ==
    /\ Len(connectCalls) <= 1
    /\ discovered = "True" =>
          \A i \in 1..Len(connectCalls) : connectCalls[i] = core_list[1]

C4_Witness ==
    /\ Len(core_list) > 1
    /\ connected = "False"
    /\ Returned
    /\ connectCalls = <<core_list[1]>>

\* The instant an isoformat() text denotes.
ParseIso(s) == s[1] * TicksPerSec + (IF Len(s) > 1 THEN s[2] ELSE 0)

\* C5 as stated: across any two consecutive publishes of a run, the later
\* record's ts denotes an instant not before the earlier one's.
C5_Original ==
    \A i \in 1..(Len(publishCalls) - 1) :
        ParseIso(publishCalls[i].data[1].ts)
            <= ParseIso(publishCalls[i + 1].data[1].ts)

\* C6 as stated: when the cancellation is observed, every publish call that
\* has started has completed and every record built has been handed to
\* publish.
C6_Original ==
    cancelObserved =>
        /\ completed = Len(publishCalls)
        /\ built = Len(publishCalls)

\* The teardown C7 describes: disconnect issued, then the 2-unit delay.
C7_Order ==
    teardown = << [op |-> "disconnect", arg |-> 0], [op |-> "sleep", arg |-> 2] >>

C8_Original ==
    (publishCalls # <<>> /\ pc \notin LoopLocations) => cancelObserved

====
